---- MODULE Spec2Model ----
(***************************************************************************)
(* A model of the logic-puzzle solver: the three-valued Solution table,   *)
(* the constraint catalog of constraints.h and the propagate-and-branch   *)
(* search of Puzzle::Solve.                                               *)
(***************************************************************************)
EXTENDS Integers, Sequences, FiniteSets, TLC

(***************************************************************************)
(* solver.h: enum Truth and operator!                                      *)
(***************************************************************************)
NO == -1
MAYBE == 0
YES == 1

Truth == {NO, MAYBE, YES}

Definite == {NO, YES}

Not(t) == 0 - t

(***************************************************************************)
(* solver.h: enum class Result.  ABORT is not a value of the enum: it is   *)
(* the outcome of a failed assert, which ends the program.                 *)
(***************************************************************************)
CONFLICT == "CONFLICT"
NO_CHANGE == "NO_CHANGE"
PROGRESS == "PROGRESS"
ABORT == "ABORT"

Result == {CONFLICT, NO_CHANGE, PROGRESS}

(***************************************************************************)
(* std::size_t arithmetic is modular.  TLC's integers are 32 bits wide, so *)
(* the model keeps the wrap-around of an unsigned subtraction with a word  *)
(* of SizeBits bits; every count of the model is far below 2^SizeBits, as  *)
(* every list length of the program is below 2^64.                         *)
(***************************************************************************)
SizeBits == 16

SizeMod == 2 ^ SizeBits

SizeSub(a, b) == (a - b) % SizeMod

(***************************************************************************)
(* class Solution: m_table is a function from the indices 0..size-1.       *)
(* m_table[index] with index >= size() is not checked and its behaviour is *)
(* undefined: the read yields whatever the memory behind the table holds,  *)
(* a value of the enum or any other int, or it faults and the program      *)
(* ends.  wild is that outcome: whether the read faults and, when it does  *)
(* not, the value it yields; Stray stands for the ints outside the enum.   *)
(* FAULT is what a call ends with when a read of it faulted.               *)
(***************************************************************************)
VARIABLE wild

Stray == 2

FAULT == "FAULT"

WildReads ==
    {[faults |-> TRUE, value |-> MAYBE]}
    \cup {[faults |-> FALSE, value |-> v] : v \in Truth \cup {Stray}}

\* the memory behind the table when no read leaves the table
Unread == [faults |-> FALSE, value |-> MAYBE]

Solution(slots) == [i \in 0 .. (slots - 1) |-> MAYBE]

size(s) == Cardinality(DOMAIN s)

\* Solution::operator[]
At(s, index) == IF index \in DOMAIN s THEN s[index] ELSE wild.value

\* a read of one of the listed slots faults
Faults(s, indexes) == wild.faults /\ \E k \in 1 .. Len(indexes) : indexes[k] \notin DOMAIN s

\* FirstMaybe that searches the table from its end
FirstMaybe_Last(s) ==
    IF \E i \in DOMAIN s : s[i] = MAYBE
    THEN CHOOSE i \in DOMAIN s : s[i] = MAYBE /\ \A j \in DOMAIN s : j > i => s[j] # MAYBE
    ELSE size(s)

\* Solution::FirstMaybe: std::find over m_table, size() when there is none.
FirstMaybe(s) ==
    IF \E i \in DOMAIN s : s[i] = MAYBE
    THEN CHOOSE i \in DOMAIN s : s[i] = MAYBE /\ \A j \in DOMAIN s : j < i => s[j] # MAYBE
    ELSE size(s)

\* The value a call returns together with the table it leaves behind.
Ret(r, s) == [result |-> r, s |-> s]

\* Set without the test for the opposite value
Set_NoConflict(s, index, value) ==
    IF ~(index < size(s)) THEN Ret(ABORT, s)
    ELSE IF ~(value # MAYBE) THEN Ret(ABORT, s)
    ELSE IF s[index] = value THEN Ret(NO_CHANGE, s)
    ELSE Ret(PROGRESS, [s EXCEPT ![index] = value])

\* Set that stores the value before it tests for the opposite value
Set_WriteFirst(s, index, value) ==
    IF ~(index < size(s)) THEN Ret(ABORT, s)
    ELSE IF ~(value # MAYBE) THEN Ret(ABORT, s)
    ELSE IF s[index] = value THEN Ret(NO_CHANGE, s)
    ELSE IF s[index] # MAYBE THEN Ret(CONFLICT, [s EXCEPT ![index] = value])
    ELSE Ret(PROGRESS, [s EXCEPT ![index] = value])

\* Set that reports PROGRESS and stores nothing
Set_Dropped(s, index, value) ==
    IF ~(index < size(s)) THEN Ret(ABORT, s)
    ELSE IF ~(value # MAYBE) THEN Ret(ABORT, s)
    ELSE IF s[index] = value THEN Ret(NO_CHANGE, s)
    ELSE IF s[index] # MAYBE THEN Ret(CONFLICT, s)
    ELSE Ret(PROGRESS, s)

\* Solution::Set
Set(s, index, value) ==
    IF ~(index < size(s)) THEN Ret(ABORT, s)
    ELSE IF ~(value # MAYBE) THEN Ret(ABORT, s)
    ELSE IF s[index] = value THEN Ret(NO_CHANGE, s)
    ELSE IF s[index] # MAYBE THEN Ret(CONFLICT, s)
    ELSE Ret(PROGRESS, [s EXCEPT ![index] = value])

\* Solution::Count: std::count_if over the index list, repeats counted.
RECURSIVE Count(_, _, _)
Count(s, indexes, value) ==
    IF indexes = <<>> THEN 0
    ELSE (IF At(s, Head(indexes)) = value THEN 1 ELSE 0) + Count(s, Tail(indexes), value)

(***************************************************************************)
(* constraints.h: the catalog.  A constraint is a record of its members;   *)
(* the name is diagnostic only and is left out.                            *)
(***************************************************************************)
Fixed(index, value) == [kind |-> "Fixed", m_index |-> index, m_value |-> value]

IfPThenQ(P, Q) == [kind |-> "IfPThenQ", m_p |-> P, m_q |-> Q]

Identical(indexes1, indexes2) ==
    [kind |-> "Identical", m_indexes1 |-> indexes1, m_indexes2 |-> indexes2]

ExactlyNOf(n, indexes, value) ==
    [kind |-> "ExactlyNOf", m_number |-> n, m_indexes |-> indexes, m_value |-> value]

IfPThenOneOrMoreOfQ(P, Q) == [kind |-> "IfPThenOneOrMoreOfQ", m_p |-> P, m_qs |-> Q]

\* Fixed::Evaluate that reports PROGRESS whenever Set found no conflict
FixedEvaluate_Progress(c, s) ==
    LET r == Set(s, c.m_index, c.m_value)
    IN  IF r.result = NO_CHANGE THEN Ret(PROGRESS, r.s) ELSE r

\* Fixed::Evaluate
FixedEvaluate(c, s) == Set(s, c.m_index, c.m_value)

\* IfPThenQ::Evaluate without the conflict test
IfPThenQEvaluate_NoConflict(c, s) ==
    IF At(s, c.m_p) = YES /\ At(s, c.m_q) = MAYBE THEN Set(s, c.m_q, YES)
    ELSE IF At(s, c.m_q) = NO /\ At(s, c.m_p) = MAYBE THEN Set(s, c.m_p, NO)
    ELSE Ret(NO_CHANGE, s)

\* IfPThenQ::Evaluate that also derives the converse
IfPThenQEvaluate_Converse(c, s) ==
    IF At(s, c.m_p) = YES /\ At(s, c.m_q) = NO THEN Ret(CONFLICT, s)
    ELSE IF At(s, c.m_p) = YES /\ At(s, c.m_q) = MAYBE THEN Set(s, c.m_q, YES)
    ELSE IF At(s, c.m_q) = NO /\ At(s, c.m_p) = MAYBE THEN Set(s, c.m_p, NO)
    ELSE IF At(s, c.m_p) = NO /\ At(s, c.m_q) = MAYBE THEN Set(s, c.m_q, NO)
    ELSE Ret(NO_CHANGE, s)

\* IfPThenQ::Evaluate without the contrapositive
IfPThenQEvaluate_NoContrapositive(c, s) ==
    IF At(s, c.m_p) = YES /\ At(s, c.m_q) = NO THEN Ret(CONFLICT, s)
    ELSE IF At(s, c.m_p) = YES /\ At(s, c.m_q) = MAYBE THEN Set(s, c.m_q, YES)
    ELSE Ret(NO_CHANGE, s)

\* IfPThenQ::Evaluate that sets Q and P but does not pass on what Set returned
IfPThenQEvaluate_Silent(c, s) ==
    IF At(s, c.m_p) = YES /\ At(s, c.m_q) = NO THEN Ret(CONFLICT, s)
    ELSE IF At(s, c.m_p) = YES /\ At(s, c.m_q) = MAYBE
    THEN Ret(NO_CHANGE, Set(s, c.m_q, YES).s)
    ELSE IF At(s, c.m_q) = NO /\ At(s, c.m_p) = MAYBE
    THEN Ret(NO_CHANGE, Set(s, c.m_p, NO).s)
    ELSE Ret(NO_CHANGE, s)

\* IfPThenQ::Evaluate
IfPThenQEvaluate(c, s) ==
    IF Faults(s, <<c.m_p, c.m_q>>) THEN Ret(FAULT, s)
    ELSE IF At(s, c.m_p) = YES /\ At(s, c.m_q) = NO THEN Ret(CONFLICT, s)
    ELSE IF At(s, c.m_p) = YES /\ At(s, c.m_q) = MAYBE THEN Set(s, c.m_q, YES)
    ELSE IF At(s, c.m_q) = NO /\ At(s, c.m_p) = MAYBE THEN Set(s, c.m_p, NO)
    ELSE Ret(NO_CHANGE, s)

\* Identical::Evaluate's loop that copies a definite value from list 2 to
\* list 1 only
RECURSIVE IdenticalLoop_OneWay(_, _, _, _)
IdenticalLoop_OneWay(c, s, i, result) ==
    IF ~(i <= Len(c.m_indexes1)) THEN Ret(result, s)
    ELSE
        LET a == c.m_indexes1[i]
            b == c.m_indexes2[i]
        IN  IF At(s, a) = YES /\ At(s, b) = NO THEN Ret(CONFLICT, s)
            ELSE IF At(s, b) = YES /\ At(s, a) = NO THEN Ret(CONFLICT, s)
            ELSE
                LET first == At(s, a) = MAYBE /\ At(s, b) # MAYBE
                    r1 == IF first THEN Set(s, a, At(s, b)) ELSE Ret(result, s)
                    res1 == IF first THEN PROGRESS ELSE result
                IN  IF r1.result = ABORT THEN Ret(ABORT, r1.s)
                    ELSE IdenticalLoop_OneWay(c, r1.s, i + 1, res1)

\* Identical::Evaluate, the body of the for loop from pair i on.
RECURSIVE IdenticalLoop(_, _, _, _)
IdenticalLoop(c, s, i, result) ==
    IF ~(i <= Len(c.m_indexes1)) THEN Ret(result, s)
    ELSE
        LET a == c.m_indexes1[i]
            b == c.m_indexes2[i]
        IN  IF Faults(s, <<a, b>>) THEN Ret(FAULT, s)
            ELSE IF At(s, a) = YES /\ At(s, b) = NO THEN Ret(CONFLICT, s)
            ELSE IF At(s, b) = YES /\ At(s, a) = NO THEN Ret(CONFLICT, s)
            ELSE
                LET first == At(s, a) = MAYBE /\ At(s, b) # MAYBE
                    r1 == IF first THEN Set(s, a, At(s, b)) ELSE Ret(result, s)
                    s1 == r1.s
                    res1 == IF first THEN PROGRESS ELSE result
                    second == At(s1, b) = MAYBE /\ At(s1, a) # MAYBE
                    r2 == IF second THEN Set(s1, b, At(s1, a)) ELSE Ret(res1, s1)
                    s2 == r2.s
                    res2 == IF second THEN PROGRESS ELSE res1
                IN  IF r1.result = ABORT THEN Ret(ABORT, s1)
                    ELSE IF r2.result = ABORT THEN Ret(ABORT, s2)
                    ELSE IdenticalLoop(c, s2, i + 1, res2)

\* Identical::Evaluate
IdenticalEvaluate(c, s) ==
    IF ~(Len(c.m_indexes1) = Len(c.m_indexes2)) THEN Ret(ABORT, s)
    ELSE IdenticalLoop(c, s, 1, NO_CHANGE)

\* for (Index index : m_indexes) if (s[index] == MAYBE) s.Set(index, value);
RECURSIVE SetMaybes(_, _, _)
SetMaybes(s, indexes, value) ==
    IF indexes = <<>> THEN Ret(PROGRESS, s)
    ELSE IF At(s, Head(indexes)) = MAYBE
    THEN LET r == Set(s, Head(indexes), value)
         IN  IF r.result = ABORT THEN r ELSE SetMaybes(r.s, Tail(indexes), value)
    ELSE SetMaybes(s, Tail(indexes), value)

\* ExactlyNOf::Evaluate that forces the MAYBE slots as soon as they suffice
ExactlyNOfEvaluate_Eager(c, s) ==
    LET matches == Count(s, c.m_indexes, c.m_value)
        maybes == Count(s, c.m_indexes, MAYBE)
    IN  IF maybes < SizeSub(c.m_number, matches) THEN Ret(CONFLICT, s)
        ELSE IF matches > c.m_number THEN Ret(CONFLICT, s)
        ELSE IF maybes > 0 /\ matches = c.m_number
        THEN SetMaybes(s, c.m_indexes, Not(c.m_value))
        ELSE IF maybes > 0 /\ maybes >= SizeSub(c.m_number, matches)
        THEN SetMaybes(s, c.m_indexes, c.m_value)
        ELSE Ret(NO_CHANGE, s)

\* ExactlyNOf::Evaluate without the test that a MAYBE slot is left
ExactlyNOfEvaluate_NoMaybesTest(c, s) ==
    LET matches == Count(s, c.m_indexes, c.m_value)
        maybes == Count(s, c.m_indexes, MAYBE)
    IN  IF maybes < SizeSub(c.m_number, matches) THEN Ret(CONFLICT, s)
        ELSE IF matches > c.m_number THEN Ret(CONFLICT, s)
        ELSE IF matches = c.m_number
        THEN SetMaybes(s, c.m_indexes, Not(c.m_value))
        ELSE IF maybes = SizeSub(c.m_number, matches)
        THEN SetMaybes(s, c.m_indexes, c.m_value)
        ELSE Ret(NO_CHANGE, s)

\* ExactlyNOf::Evaluate that closes the rest off with the value itself
ExactlyNOfEvaluate_SameValue(c, s) ==
    LET matches == Count(s, c.m_indexes, c.m_value)
        maybes == Count(s, c.m_indexes, MAYBE)
    IN  IF maybes < SizeSub(c.m_number, matches) THEN Ret(CONFLICT, s)
        ELSE IF matches > c.m_number THEN Ret(CONFLICT, s)
        ELSE IF maybes > 0 /\ matches = c.m_number
        THEN SetMaybes(s, c.m_indexes, c.m_value)
        ELSE IF maybes > 0 /\ maybes = SizeSub(c.m_number, matches)
        THEN SetMaybes(s, c.m_indexes, c.m_value)
        ELSE Ret(NO_CHANGE, s)

\* ExactlyNOf::Evaluate
ExactlyNOfEvaluate(c, s) ==
    LET matches == Count(s, c.m_indexes, c.m_value)
        maybes == Count(s, c.m_indexes, MAYBE)
    IN  IF Faults(s, c.m_indexes) THEN Ret(FAULT, s)
        ELSE IF maybes < SizeSub(c.m_number, matches) THEN Ret(CONFLICT, s)
        ELSE IF matches > c.m_number THEN Ret(CONFLICT, s)
        ELSE IF maybes > 0 /\ matches = c.m_number
        THEN SetMaybes(s, c.m_indexes, Not(c.m_value))
        ELSE IF maybes > 0 /\ maybes = SizeSub(c.m_number, matches)
        THEN SetMaybes(s, c.m_indexes, c.m_value)
        ELSE Ret(NO_CHANGE, s)

\* ExactlyNOf::Evaluate, the difference m_number - matches of its first test:
\* computed on every call, before matches is compared with m_number
Difference(c, s) ==
    LET matches == Count(s, c.m_indexes, c.m_value)
    IN  [minuend |-> c.m_number, subtrahend |-> matches,
         value |-> SizeSub(c.m_number, matches)]

\* IfPThenOneOrMoreOfQ::QCount
QCount(c, s) ==
    [noes |-> Count(s, c.m_qs, NO),
     maybes |-> Count(s, c.m_qs, MAYBE),
     yeses |-> Count(s, c.m_qs, YES)]

\* for (auto i : m_q) if (s[i] == MAYBE) return s.Set(i, YES); assert(false)
RECURSIVE SetFirstMaybe(_, _)
SetFirstMaybe(s, indexes) ==
    IF indexes = <<>> THEN Ret(ABORT, s)
    ELSE IF At(s, Head(indexes)) = MAYBE THEN Set(s, Head(indexes), YES)
    ELSE SetFirstMaybe(s, Tail(indexes))

\* IfPThenOneOrMoreOfQ::Evaluate that never decides P
IfPThenOneOrMoreOfQEvaluate_KeepP(c, s) ==
    LET P == At(s, c.m_p)
        Q == QCount(c, s)
    IN  IF P = YES /\ Q.yeses = 0 /\ Q.maybes = 0 THEN Ret(CONFLICT, s)
        ELSE IF P = YES /\ Q.yeses = 0 /\ Q.maybes = 1 THEN SetFirstMaybe(s, c.m_qs)
        ELSE Ret(NO_CHANGE, s)

\* IfPThenOneOrMoreOfQ::Evaluate
IfPThenOneOrMoreOfQEvaluate(c, s) ==
    LET P == At(s, c.m_p)
        Q == QCount(c, s)
    IN  IF Faults(s, <<c.m_p>> \o c.m_qs) THEN Ret(FAULT, s)
        ELSE IF P = YES /\ Q.yeses = 0 /\ Q.maybes = 0 THEN Ret(CONFLICT, s)
        ELSE IF P = YES /\ Q.yeses = 0 /\ Q.maybes = 1 THEN SetFirstMaybe(s, c.m_qs)
        ELSE IF P = MAYBE /\ Q.yeses = 0 /\ Q.maybes = 0 THEN Set(s, c.m_p, NO)
        ELSE Ret(NO_CHANGE, s)

\* zebra.cpp, OneIfAny::OneIfAny
OneIfAny(one, any) == [kind |-> "OneIfAny", m_one |-> one, m_any |-> any]

\* OneIfAny::Evaluate, its for loop: the first MAYBE of the list is set to YES
RECURSIVE OneIfAnyLoop(_, _)
OneIfAnyLoop(s, indexes) ==
    IF indexes = <<>> THEN Ret(NO_CHANGE, s)
    ELSE IF At(s, Head(indexes)) = MAYBE THEN Set(s, Head(indexes), YES)
    ELSE OneIfAnyLoop(s, Tail(indexes))

\* OneIfAny::Evaluate that forces the one MAYBE without looking for a YES
OneIfAnyEvaluate_IgnoresYes(c, s) ==
    LET noes == Count(s, c.m_any, NO)
        maybes == Count(s, c.m_any, MAYBE)
    IN  IF Faults(s, c.m_any) THEN Ret(FAULT, s)
        ELSE IF noes = Len(c.m_any) THEN Set(s, c.m_one, NO)
        ELSE IF Faults(s, <<c.m_one>>) THEN Ret(FAULT, s)
        ELSE IF At(s, c.m_one) = YES /\ maybes = 1
        THEN OneIfAnyLoop(s, c.m_any)
        ELSE Ret(NO_CHANGE, s)

\* OneIfAny::Evaluate
OneIfAnyEvaluate(c, s) ==
    LET noes == Count(s, c.m_any, NO)
        maybes == Count(s, c.m_any, MAYBE)
    IN  IF Faults(s, c.m_any) THEN Ret(FAULT, s)
        ELSE IF noes = Len(c.m_any) THEN Set(s, c.m_one, NO)
        ELSE IF Faults(s, <<c.m_one>>) THEN Ret(FAULT, s)
        ELSE IF At(s, c.m_one) = YES /\ maybes = 1 /\ noes + 1 = Len(c.m_any)
        THEN OneIfAnyLoop(s, c.m_any)
        ELSE Ret(NO_CHANGE, s)

\* the constructors: Fixed::Fixed asserts its value, the others assert nothing
Constructed(c) == c.kind = "Fixed" => c.m_value # MAYBE

\* BasicConstraint::Evaluate, the virtual call
Evaluate(c, s) ==
    CASE c.kind = "Fixed" -> FixedEvaluate(c, s)
      [] c.kind = "IfPThenQ" -> IfPThenQEvaluate(c, s)
      [] c.kind = "Identical" -> IdenticalEvaluate(c, s)
      [] c.kind = "ExactlyNOf" -> ExactlyNOfEvaluate(c, s)
      [] c.kind = "IfPThenOneOrMoreOfQ" -> IfPThenOneOrMoreOfQEvaluate(c, s)
      [] c.kind = "OneIfAny" -> OneIfAnyEvaluate(c, s)

(***************************************************************************)
(* Bounds of the model.                                                    *)
(***************************************************************************)
\* slots of the Solution that the calls of SpecRules act on
MaxSlots == 3
\* length of the index list of an ExactlyNOf or an IfPThenOneOrMoreOfQ
MaxList == 3
\* number of pairs of an Identical
MaxPairs == 2

Indexes(slots) == 0 .. (slots - 1)

\* the index lists, repeats allowed, of length at most n over the slots
RECURSIVE Lists(_, _)
Lists(slots, n) ==
    IF n = 0 THEN {<<>>}
    ELSE LET shorter == Lists(slots, n - 1)
         IN  shorter \cup
             {Append(l, i) : l \in {x \in shorter : Len(x) = n - 1}, i \in Indexes(slots)}

FixedOver(slots) == {Fixed(i, v) : i \in Indexes(slots), v \in Definite}

IfPThenQOver(slots) == {IfPThenQ(p, q) : p \in Indexes(slots), q \in Indexes(slots)}

IdenticalOver(slots) ==
    {Identical(ab[1], ab[2]) :
        ab \in {x \in Lists(slots, MaxPairs) \X Lists(slots, MaxPairs) : Len(x[1]) = Len(x[2])}}

ExactlyNOfOver(slots) ==
    {ExactlyNOf(nl[1], nl[2], v) :
        nl \in {x \in (0 .. (MaxList + 1)) \X Lists(slots, MaxList) : x[1] <= Len(x[2]) + 1},
        v \in Definite}

IfPThenOneOrMoreOfQOver(slots) ==
    {IfPThenOneOrMoreOfQ(p, q) : p \in Indexes(slots), q \in Lists(slots, MaxList)}

OneIfAnyOver(slots) ==
    {OneIfAny(one, any) : one \in Indexes(slots), any \in Lists(slots, MaxList)}

\* the constraints SpecRules evaluates
FixedRules == FixedOver(MaxSlots)

IfPThenQRules == IfPThenQOver(MaxSlots)

IdenticalRules == IdenticalOver(MaxSlots)

ExactlyNOfRules == ExactlyNOfOver(MaxSlots)

IfPThenOneOrMoreOfQRules == IfPThenOneOrMoreOfQOver(MaxSlots)

\* the OneIfAny constraints SpecZebra evaluates
OneIfAnyRules == OneIfAnyOver(MaxSlots)

\* the index lists without repeats, in ascending order
AscLists(slots) ==
    {l \in Lists(slots, slots) : \A i \in 1 .. Len(l), j \in 1 .. Len(l) : i < j => l[i] < l[j]}

\* the constraints of the puzzles Spec solves
PuzzleRules(slots) ==
    FixedOver(slots) \cup IfPThenQOver(slots)
    \cup {Identical(<<a>>, <<b>>) : a \in Indexes(slots), b \in Indexes(slots)}
    \cup {ExactlyNOf(nl[1], nl[2], v) :
            nl \in {x \in (0 .. slots) \X AscLists(slots) : x[1] <= Len(x[2])},
            v \in Definite}
    \cup {IfPThenOneOrMoreOfQ(p, q) : p \in Indexes(slots), q \in AscLists(slots)}

\* slots of a generated puzzle
PuzzleSlots == 2
\* number of constraints of a generated puzzle
MaxConstraints == 1

RECURSIVE ConstraintLists(_, _)
ConstraintLists(rules, n) ==
    IF n = 0 THEN {<<>>}
    ELSE LET shorter == ConstraintLists(rules, n - 1)
         IN  shorter \cup
             {Append(l, c) : l \in {x \in shorter : Len(x) = n - 1}, c \in rules}

Puzzle(slots, constraints) == [m_slot_count |-> slots, m_constraints |-> constraints]

\* spec.md, end-to-end scenario A
ScenarioA ==
    Puzzle(4, <<Fixed(0, YES), Identical(<<0>>, <<1>>), ExactlyNOf(1, <<2, 3>>, YES)>>)

\* spec.md, end-to-end scenario B
ScenarioB == Puzzle(1, <<Fixed(0, YES), Fixed(0, NO)>>)

\* a chain of implications registered against the direction of deduction
Chain == Puzzle(3, <<IfPThenQ(1, 2), IfPThenQ(0, 1), Fixed(0, YES)>>)

\* the 2x2 Latin square, slot 4*row + 2*col + val, in the way sudoku.cpp
\* registers its rules: cell, row and column hold each value exactly once
Latin2 ==
    Puzzle(8,
        <<ExactlyNOf(1, <<0, 1>>, YES), ExactlyNOf(1, <<0, 2>>, YES), ExactlyNOf(1, <<0, 4>>, YES),
          ExactlyNOf(1, <<2, 3>>, YES), ExactlyNOf(1, <<1, 3>>, YES), ExactlyNOf(1, <<2, 6>>, YES),
          ExactlyNOf(1, <<4, 5>>, YES), ExactlyNOf(1, <<4, 6>>, YES), ExactlyNOf(1, <<1, 5>>, YES),
          ExactlyNOf(1, <<6, 7>>, YES), ExactlyNOf(1, <<5, 7>>, YES), ExactlyNOf(1, <<3, 7>>, YES)>>)

\* an implication that two later Fixed contradict
Clash == Puzzle(2, <<IfPThenQ(0, 1), Fixed(0, YES), Fixed(1, NO)>>)

\* one constraint of each kind but Fixed: the guess NO for slot 0 is a dead end
Mixed ==
    Puzzle(4,
        <<ExactlyNOf(1, <<0, 1>>, YES), ExactlyNOf(1, <<2, 3>>, YES), Identical(<<0>>, <<2>>),
          IfPThenOneOrMoreOfQ(1, <<2, 3>>), IfPThenQ(3, 0)>>)

\* the guess YES for slot 0, the first one tried, is a dead end
DeadEnd == Puzzle(2, <<ExactlyNOf(1, <<0, 1>>, YES), IfPThenQ(0, 1)>>)

\* three slots and one rule: guesses are made below guesses, and propagation
\* goes on while other candidates wait and solutions are already found
Fork == Puzzle(3, <<IfPThenQ(1, 2)>>)

Scenarios == {ScenarioA, ScenarioB, Chain, Latin2, Clash, Mixed, DeadEnd, Fork}

\* the scenarios, and every puzzle of at most PuzzleSlots slots with at most
\* MaxConstraints constraints
Puzzles ==
    Scenarios \cup
    UNION {{Puzzle(slots, cs) : cs \in ConstraintLists(PuzzleRules(slots), MaxConstraints)} :
              slots \in 0 .. PuzzleSlots}

(***************************************************************************)
(* State.                                                                  *)
(*   m_slot_count, m_constraints   the members of the Puzzle               *)
(*   candidates, solutions, result the locals of Puzzle::Solve; the top of *)
(*                                 the stack is the last element           *)
(*   ac, it                        the locals of Puzzle::ApplyConstraints: *)
(*                                 its result and the position of its for  *)
(*   pc                            where the program is                    *)
(*   evals                         what the Evaluate calls of the running  *)
(*                                 pass returned, in order                 *)
(*   passes                        ApplyConstraints calls made so far on   *)
(*                                 the candidate on top                    *)
(*   arg, call, ret, sol           the last call: the Solution before it,  *)
(*                                 the call, what it returned and the      *)
(*                                 Solution after it; in SpecRules sol is  *)
(*                                 the one Solution every call acts on     *)
(*   steps                         what the running Solve has done so far: *)
(*                                 its Evaluate calls with their outcomes  *)
(*                                 and its prune, emit and branch steps    *)
(*   run, first                    which run this is, and where the first  *)
(*                                 run started and what it ended with      *)
(*   wild                          declared with class Solution            *)
(***************************************************************************)
VARIABLES m_slot_count, m_constraints, candidates, solutions, result, ac, it, pc,
          evals, passes, sol, arg, call, ret, steps, run, first

solve_vars == <<m_slot_count, m_constraints, candidates, solutions, result, ac, it, pc,
                evals, passes, steps>>

run_vars == <<run, first>>

vars == <<m_slot_count, m_constraints, candidates, solutions, result, ac, it, pc,
          evals, passes, sol, arg, call, ret, steps, run, first, wild>>

(***************************************************************************)
(* SpecRules: a Solution is constructed and then Set and the Evaluate of   *)
(* catalog constraints are called on it, one call after the other, in any  *)
(* order.  A failed assert ends the run.                                   *)
(***************************************************************************)
Idle == [op |-> "none"]

InitRules ==
    /\ sol = Solution(MaxSlots)
    /\ arg = sol
    /\ call = Idle
    /\ ret = NO_CHANGE
    /\ m_slot_count = MaxSlots
    /\ m_constraints = <<>>
    /\ candidates = <<>>
    /\ solutions = <<>>
    /\ result = NO_CHANGE
    /\ ac = NO_CHANGE
    /\ it = 1
    /\ pc = "rules"
    /\ evals = <<>>
    /\ passes = 0
    /\ steps = <<>>
    /\ run = "rules"
    /\ first = [start |-> <<sol>>]
    /\ wild = Unread

Called(c, r) ==
    /\ arg' = sol
    /\ call' = c
    /\ sol' = r.s
    /\ ret' = r.result
    /\ UNCHANGED <<solve_vars, run_vars, wild>>

CallSet ==
    /\ pc = "rules"
    /\ call = Idle
    /\ \E index \in 0 .. MaxSlots, value \in Truth :
          Called([op |-> "Set", index |-> index, value |-> value], Set(sol, index, value))

CallEvaluate(c) == Called([op |-> "Evaluate", c |-> c], Evaluate(c, sol))

CallFixed ==
    /\ pc = "rules"
    /\ call = Idle
    /\ \E c \in FixedRules : CallEvaluate(c)

CallIfPThenQ ==
    /\ pc = "rules"
    /\ call = Idle
    /\ \E c \in IfPThenQRules : CallEvaluate(c)

CallIdentical ==
    /\ pc = "rules"
    /\ call = Idle
    /\ \E c \in IdenticalRules : CallEvaluate(c)

CallExactlyNOf ==
    /\ pc = "rules"
    /\ call = Idle
    /\ \E c \in ExactlyNOfRules : CallEvaluate(c)

CallIfPThenOneOrMoreOfQ ==
    /\ pc = "rules"
    /\ call = Idle
    /\ \E c \in IfPThenOneOrMoreOfQRules : CallEvaluate(c)

\* the caller takes the returned value and goes on to its next call
Returned ==
    /\ pc = "rules"
    /\ call # Idle
    /\ ret \notin {ABORT, FAULT}
    /\ call' = Idle
    /\ arg' = sol
    /\ ret' = NO_CHANGE
    /\ UNCHANGED <<sol, solve_vars, run_vars, wild>>

NextRules ==
    \/ Returned
    \/ CallSet
    \/ CallFixed
    \/ CallIfPThenQ
    \/ CallIdentical
    \/ CallExactlyNOf
    \/ CallIfPThenOneOrMoreOfQ

SpecRules == InitRules /\ [][NextRules]_vars

(***************************************************************************)
(* SpecZebra: the rule OneIfAny of zebra.cpp and the rule                  *)
(* IfPThenOneOrMoreOfQ of constraints.h, called on the tables that Set     *)
(* calls build.                                                            *)
(***************************************************************************)
CallOneIfAny ==
    /\ pc = "rules"
    /\ call = Idle
    /\ \E c \in OneIfAnyRules : CallEvaluate(c)

NextZebra ==
    \/ CallSet
    \/ CallIfPThenOneOrMoreOfQ
    \/ CallOneIfAny
    \/ Returned

SpecZebra == InitRules /\ [][NextZebra]_vars

(***************************************************************************)
(* SpecMisuse: the calls a caller can make against the preconditions, on a *)
(* Solution of MisuseSlots slots: an index one past the last slot, the     *)
(* value MAYBE, an ExactlyNOf whose n exceeds its list.  A constraint is   *)
(* constructed and, when its constructor returned, evaluated.              *)
(***************************************************************************)
MisuseSlots == 2
\* length of an index list of SpecMisuse
MisuseList == 2

\* the slots and the index one past the last slot
MisuseIndexes == 0 .. MisuseSlots

MisuseLists == Lists(MisuseSlots + 1, MisuseList)

MisuseFixed == {Fixed(i, v) : i \in MisuseIndexes, v \in Truth}

MisuseIfPThenQ == {IfPThenQ(p, q) : p \in MisuseIndexes, q \in MisuseIndexes}

MisuseIdentical ==
    {Identical(ab[1], ab[2]) : ab \in {x \in MisuseLists \X MisuseLists : Len(x[1]) = Len(x[2])}}

MisuseExactlyNOf ==
    {ExactlyNOf(n, l, v) : n \in 0 .. (MisuseList + 1), l \in MisuseLists, v \in Truth}

MisuseIfPThenOneOrMoreOfQ ==
    {IfPThenOneOrMoreOfQ(p, q) : p \in MisuseIndexes, q \in MisuseLists}

\* what a caller gets from s[index]
Subscript(s, index) == IF Faults(s, <<index>>) THEN FAULT ELSE ToString(At(s, index))

\* what a caller gets from s.Count(indexes, value)
Counted(s, indexes, value) ==
    IF Faults(s, indexes) THEN FAULT ELSE ToString(Count(s, indexes, value))

InitMisuse ==
    /\ sol = Solution(MisuseSlots)
    /\ arg = sol
    /\ call = Idle
    /\ ret = NO_CHANGE
    /\ m_slot_count = MisuseSlots
    /\ m_constraints = <<>>
    /\ candidates = <<>>
    /\ solutions = <<>>
    /\ result = NO_CHANGE
    /\ ac = NO_CHANGE
    /\ it = 1
    /\ pc = "rules"
    /\ evals = <<>>
    /\ passes = 0
    /\ steps = <<>>
    /\ run = "rules"
    /\ first = [start |-> <<sol>>]
    /\ wild \in WildReads

MisuseSet ==
    /\ pc = "rules"
    /\ call = Idle
    /\ \E index \in MisuseIndexes, value \in Truth :
          Called([op |-> "Set", index |-> index, value |-> value], Set(sol, index, value))

MisuseSubscript ==
    /\ pc = "rules"
    /\ call = Idle
    /\ \E index \in MisuseIndexes :
          Called([op |-> "operator[]", index |-> index], Ret(Subscript(sol, index), sol))

MisuseCount ==
    /\ pc = "rules"
    /\ call = Idle
    /\ \E indexes \in MisuseLists, value \in Truth :
          Called([op |-> "Count", indexes |-> indexes, value |-> value],
                 Ret(Counted(sol, indexes, value), sol))

\* the constructor and, when its assert held, the first Evaluate
Build(c) ==
    IF ~Constructed(c) THEN Called([op |-> "Construct", c |-> c], Ret(ABORT, sol))
    ELSE CallEvaluate(c)

BuildFixed ==
    /\ pc = "rules"
    /\ call = Idle
    /\ \E c \in MisuseFixed : Build(c)

BuildIfPThenQ ==
    /\ pc = "rules"
    /\ call = Idle
    /\ \E c \in MisuseIfPThenQ : Build(c)

BuildIdentical ==
    /\ pc = "rules"
    /\ call = Idle
    /\ \E c \in MisuseIdentical : Build(c)

BuildExactlyNOf ==
    /\ pc = "rules"
    /\ call = Idle
    /\ \E c \in MisuseExactlyNOf : Build(c)

BuildIfPThenOneOrMoreOfQ ==
    /\ pc = "rules"
    /\ call = Idle
    /\ \E c \in MisuseIfPThenOneOrMoreOfQ : Build(c)

NextMisuse ==
    \/ Returned
    \/ MisuseSet
    \/ MisuseSubscript
    \/ MisuseCount
    \/ BuildFixed
    \/ BuildIfPThenQ
    \/ BuildIdentical
    \/ BuildExactlyNOf
    \/ BuildIfPThenOneOrMoreOfQ

SpecMisuse == InitMisuse /\ [][NextMisuse]_vars

(***************************************************************************)
(* Spec: Puzzle::Solve on a puzzle of Puzzles, a step per Evaluate call,   *)
(* per loop test and per pop.                                              *)
(***************************************************************************)
top == candidates[Len(candidates)]

pop == SubSeq(candidates, 1, Len(candidates) - 1)

\* while (!candidates.empty()): on to the do loop's first ApplyConstraints
\* call, or out of the loop to the return
WhileTest(stack) == IF stack # <<>> THEN "for" ELSE "return"

Init ==
    /\ \E p \in Puzzles :
          /\ m_slot_count = p.m_slot_count
          /\ m_constraints = p.m_constraints
    /\ solutions = <<>>
    /\ candidates = <<Solution(m_slot_count)>>
    /\ result = NO_CHANGE
    /\ ac = NO_CHANGE
    /\ it = 1
    /\ pc = WhileTest(candidates)
    /\ evals = <<>>
    /\ passes = 1
    /\ sol = <<>>
    /\ arg = <<>>
    /\ call = Idle
    /\ ret = NO_CHANGE
    /\ steps = <<>>
    /\ run = "solve"
    /\ first = [start |-> candidates]
    /\ wild = Unread

\* ApplyConstraints whose for loop goes on after a CONFLICT
EvaluateNext_KeepsGoing ==
    /\ pc = "for"
    /\ it <= Len(m_constraints)
    /\ LET c == m_constraints[it]
           r == Evaluate(c, top)
       IN  /\ arg' = top
           /\ call' = [op |-> "Evaluate", c |-> c]
           /\ ret' = r.result
           /\ sol' = r.s
           /\ candidates' = [candidates EXCEPT ![Len(candidates)] = r.s]
           /\ evals' = Append(evals, r.result)
           /\ steps' = Append(steps, <<"evaluate", it, r.result>>)
           /\ IF r.result \in {ABORT, FAULT}
              THEN /\ pc' = "abort"
                   /\ UNCHANGED <<result, ac, it>>
              ELSE /\ ac' = IF r.result = NO_CHANGE THEN ac ELSE r.result
                   /\ it' = it + 1
                   /\ UNCHANGED <<result, pc>>
    /\ UNCHANGED <<m_slot_count, m_constraints, solutions, passes, run_vars, wild>>

\* ApplyConstraints, one turn of its for loop: the Evaluate call and the switch
EvaluateNext ==
    /\ pc = "for"
    /\ it <= Len(m_constraints)
    /\ LET c == m_constraints[it]
           r == Evaluate(c, top)
       IN  /\ arg' = top
           /\ call' = [op |-> "Evaluate", c |-> c]
           /\ ret' = r.result
           /\ sol' = r.s
           /\ candidates' = [candidates EXCEPT ![Len(candidates)] = r.s]
           /\ evals' = Append(evals, r.result)
           /\ steps' = Append(steps, <<"evaluate", it, r.result>>)
           /\ IF r.result \in {ABORT, FAULT}
              THEN /\ pc' = "abort"
                   /\ UNCHANGED <<result, ac, it>>
              ELSE IF r.result = CONFLICT
              THEN /\ result' = CONFLICT
                   /\ pc' = "while"
                   /\ UNCHANGED <<ac, it>>
              ELSE /\ ac' = IF r.result = PROGRESS THEN PROGRESS ELSE ac
                   /\ it' = it + 1
                   /\ UNCHANGED <<result, pc>>
    /\ UNCHANGED <<m_slot_count, m_constraints, solutions, passes, run_vars, wild>>

\* ApplyConstraints, the end of its for loop: return result
EndFor ==
    /\ pc = "for"
    /\ ~(it <= Len(m_constraints))
    /\ result' = ac
    /\ pc' = "while"
    /\ UNCHANGED <<m_slot_count, m_constraints, candidates, solutions, ac, it,
                   evals, passes, sol, arg, call, ret, steps, run_vars, wild>>

\* } while (result == Result::PROGRESS): the next ApplyConstraints call
DoWhile ==
    /\ pc = "while"
    /\ result = PROGRESS
    /\ pc' = "for"
    /\ ac' = NO_CHANGE
    /\ it' = 1
    /\ evals' = <<>>
    /\ passes' = passes + 1
    /\ UNCHANGED <<m_slot_count, m_constraints, candidates, solutions, result,
                   sol, arg, call, ret, steps, run_vars, wild>>

\* the head of the outer loop after a pop, with the next candidate on top
Continue(stack) ==
    /\ candidates' = stack
    /\ pc' = WhileTest(stack)
    /\ ac' = NO_CHANGE
    /\ it' = 1
    /\ evals' = <<>>
    /\ passes' = 1
    /\ UNCHANGED <<m_slot_count, m_constraints, result, sol, arg, call, ret, run_vars, wild>>

\* a conflict treated as an error that ends the program
Prune_Aborts ==
    /\ pc = "while"
    /\ result # PROGRESS
    /\ result = CONFLICT
    /\ pc' = "abort"
    /\ steps' = Append(steps, <<"prune">>)
    /\ UNCHANGED <<m_slot_count, m_constraints, candidates, solutions, result, ac, it,
                   evals, passes, sol, arg, call, ret, run_vars, wild>>

\* a prune that also unregisters the constraint that reported the conflict
Prune_Forgets ==
    /\ pc = "while"
    /\ result # PROGRESS
    /\ result = CONFLICT
    /\ candidates' = pop
    /\ pc' = WhileTest(pop)
    /\ ac' = NO_CHANGE
    /\ it' = 1
    /\ evals' = <<>>
    /\ passes' = 1
    /\ m_constraints' = [k \in 1 .. (Len(m_constraints) - 1) |->
                            m_constraints[IF k < it THEN k ELSE k + 1]]
    /\ steps' = Append(steps, <<"prune">>)
    /\ UNCHANGED <<m_slot_count, result, sol, arg, call, ret, run_vars, solutions, wild>>

\* if (result == Result::CONFLICT): the candidate is a dead end
Prune ==
    /\ pc = "while"
    /\ result # PROGRESS
    /\ result = CONFLICT
    /\ Continue(pop)
    /\ steps' = Append(steps, <<"prune">>)
    /\ UNCHANGED solutions

\* if (first_maybe == candidate.size()): the candidate is a solution
Emit ==
    /\ pc = "while"
    /\ result # PROGRESS
    /\ result # CONFLICT
    /\ FirstMaybe(top) = size(top)
    /\ solutions' = Append(solutions, top)
    /\ Continue(pop)
    /\ steps' = Append(steps, <<"emit">>)

\* a branch that leaves the candidate on the stack below its two guesses
Branch_KeepsCandidate ==
    /\ pc = "while"
    /\ result # PROGRESS
    /\ result # CONFLICT
    /\ FirstMaybe(top) # size(top)
    /\ LET first_maybe == FirstMaybe(top)
           guess1 == Set(top, first_maybe, NO).s
           guess2 == Set(top, first_maybe, YES).s
       IN  /\ Continue(Append(Append(candidates, guess1), guess2))
           /\ steps' = Append(steps, <<"branch", first_maybe>>)
    /\ UNCHANGED solutions

\* a branch that pushes the guess YES first, so that NO is tried first
Branch_NoOnTop ==
    /\ pc = "while"
    /\ result # PROGRESS
    /\ result # CONFLICT
    /\ FirstMaybe(top) # size(top)
    /\ LET first_maybe == FirstMaybe(top)
           guess1 == Set(top, first_maybe, NO).s
           guess2 == Set(top, first_maybe, YES).s
       IN  /\ Continue(Append(Append(pop, guess2), guess1))
           /\ steps' = Append(steps, <<"branch", first_maybe>>)
    /\ UNCHANGED solutions

\* a branch whose first guess is written over the candidate below the top
Branch_InPlace ==
    /\ pc = "while"
    /\ result # PROGRESS
    /\ result # CONFLICT
    /\ FirstMaybe(top) # size(top)
    /\ LET first_maybe == FirstMaybe(top)
           guess1 == Set(top, first_maybe, NO).s
           guess2 == Set(top, first_maybe, YES).s
       IN  /\ Continue(IF pop = <<>> THEN <<guess1, guess2>>
                       ELSE Append([pop EXCEPT ![Len(pop)] = guess1], guess2))
           /\ steps' = Append(steps, <<"branch", first_maybe>>)
    /\ UNCHANGED solutions

\* replace the candidate with two guesses
Branch ==
    /\ pc = "while"
    /\ result # PROGRESS
    /\ result # CONFLICT
    /\ FirstMaybe(top) # size(top)
    /\ LET first_maybe == FirstMaybe(top)
           guess1 == Set(top, first_maybe, NO).s
           guess2 == Set(top, first_maybe, YES).s
       IN  /\ Continue(Append(Append(pop, guess1), guess2))
           /\ steps' = Append(steps, <<"branch", first_maybe>>)
    /\ UNCHANGED solutions

Next ==
    \/ EvaluateNext
    \/ EndFor
    \/ DoWhile
    \/ Prune
    \/ Emit
    \/ Branch

Spec == Init /\ [][Next]_vars

\* Solve runs on one thread that is never suspended: a step that can be
\* taken is taken
SpecFair == Spec /\ WF_vars(Next)

(***************************************************************************)
(* SpecFix: the do loop of Solve alone, on a candidate of any value: the   *)
(* ApplyConstraints calls up to the one that does not return PROGRESS.     *)
(***************************************************************************)
InitFix ==
    /\ \E p \in Puzzles :
          /\ m_slot_count = p.m_slot_count
          /\ m_constraints = p.m_constraints
    /\ solutions = <<>>
    /\ \E s \in [Indexes(m_slot_count) -> Truth] : candidates = <<s>>
    /\ result = NO_CHANGE
    /\ ac = NO_CHANGE
    /\ it = 1
    /\ pc = "for"
    /\ evals = <<>>
    /\ passes = 1
    /\ sol = <<>>
    /\ arg = <<>>
    /\ call = Idle
    /\ ret = NO_CHANGE
    /\ steps = <<>>
    /\ run = "fix"
    /\ first = [start |-> candidates]
    /\ wild = Unread

NextFix ==
    \/ EvaluateNext
    \/ EndFor
    \/ DoWhile

SpecFix == InitFix /\ [][NextFix]_vars

(***************************************************************************)
(* A second run.  The do loop of Solve is entered once more on the table   *)
(* the first run left; a Puzzle with the same constraints registered in    *)
(* another order is run from where the first run started; Solve is called  *)
(* once more on the Puzzle.                                                *)
(***************************************************************************)
\* what a run ended with
Outcome ==
    [start |-> first.start, result |-> result, candidates |-> candidates,
     solutions |-> solutions, steps |-> steps, m_constraints |-> m_constraints]

\* the locals of Solve at the head of its outer loop, over the given stack
Enter(stack) ==
    /\ candidates' = stack
    /\ solutions' = <<>>
    /\ pc' = WhileTest(stack)
    /\ ac' = NO_CHANGE
    /\ it' = 1
    /\ evals' = <<>>
    /\ passes' = 1
    /\ steps' = <<>>
    /\ first' = Outcome
    /\ UNCHANGED <<m_slot_count, result, sol, arg, call, ret, wild>>

\* the registration orders of the constraints of a list
Orders(constraints) ==
    {[k \in 1 .. Len(constraints) |-> constraints[f[k]]] :
        f \in {g \in [1 .. Len(constraints) -> 1 .. Len(constraints)] :
                  \A i \in 1 .. Len(constraints), j \in 1 .. Len(constraints) :
                      g[i] = g[j] => i = j}}

\* lists of more than MaxReorder constraints are only tried back to front
MaxReorder == 5

Reversed(constraints) ==
    [k \in 1 .. Len(constraints) |-> constraints[Len(constraints) + 1 - k]]

\* the other orders a second Puzzle registers the constraints in
Reorderings(constraints) ==
    (IF Len(constraints) <= MaxReorder THEN Orders(constraints) ELSE {Reversed(constraints)})
    \ {constraints}

\* do { result = ApplyConstraints(candidate); } while (...), once more on
\* the candidate the loop has just left
PropagateAgain ==
    /\ run = "fix"
    /\ pc = "while"
    /\ result # PROGRESS
    /\ run' = "fix again"
    /\ Enter(candidates)
    /\ UNCHANGED m_constraints

\* the do loop from the same candidate, the constraints in another order
PropagateReordered ==
    /\ run = "fix"
    /\ pc = "while"
    /\ result # PROGRESS
    /\ run' = "fix reordered"
    /\ \E order \in Reorderings(m_constraints) : m_constraints' = order
    /\ Enter(first.start)

\* Solve called once more on the Puzzle
SolveAgain ==
    /\ run = "solve"
    /\ pc = "return"
    /\ run' = "solve again"
    /\ Enter(<<Solution(m_slot_count)>>)
    /\ UNCHANGED m_constraints

\* Solve on a Puzzle with the constraints in another order
SolveReordered ==
    /\ run = "solve"
    /\ pc = "return"
    /\ run' = "solve reordered"
    /\ \E order \in Reorderings(m_constraints) : m_constraints' = order
    /\ Enter(<<Solution(m_slot_count)>>)

NextFixAgain ==
    \/ EvaluateNext
    \/ EndFor
    \/ DoWhile
    \/ PropagateAgain

SpecFixAgain == InitFix /\ [][NextFixAgain]_vars

NextSolveAgain ==
    \/ EvaluateNext
    \/ EndFor
    \/ DoWhile
    \/ Prune
    \/ Emit
    \/ Branch
    \/ SolveAgain

SpecSolveAgain == Init /\ [][NextSolveAgain]_vars

\* two registration orders: of the do loop on a candidate of any value, and
\* of a whole Solve
NextOrders ==
    \/ run \in {"fix", "fix reordered"} /\ NextFix
    \/ PropagateReordered
    \/ run \in {"solve", "solve reordered"} /\ Next
    \/ SolveReordered

SpecOrders == (InitFix \/ Init) /\ [][NextOrders]_vars

\* both harnesses: a run is either a run of SpecRules or a run of Spec
SpecAll == (InitRules \/ Init) /\ [][NextRules \/ Next]_vars

(***************************************************************************)
(* What the claims speak of.                                               *)
(***************************************************************************)
\* the total assignments of NO and YES to the slots
Totals(slots) == [Indexes(slots) -> Definite]

\* t agrees with every definite slot of s
Extends(t, s) == \A i \in DOMAIN s : s[i] # MAYBE => t[i] = s[i]

\* the positions of an index list whose slot holds value
Holding(s, indexes, value) == {k \in 1 .. Len(indexes) : s[indexes[k]] = value}

\* the indices an index list names
Named(indexes) == {indexes[k] : k \in 1 .. Len(indexes)}

MaybeCount(s) == Cardinality({i \in DOMAIN s : s[i] = MAYBE})

\* the logical meaning of a constraint on a table
Holds(c, t) ==
    CASE c.kind = "Fixed" -> t[c.m_index] = c.m_value
      [] c.kind = "IfPThenQ" -> (t[c.m_p] = YES => t[c.m_q] = YES)
      [] c.kind = "Identical" ->
            \A k \in 1 .. Len(c.m_indexes1) : t[c.m_indexes1[k]] = t[c.m_indexes2[k]]
      [] c.kind = "ExactlyNOf" -> Cardinality(Holding(t, c.m_indexes, c.m_value)) = c.m_number
      [] c.kind = "IfPThenOneOrMoreOfQ" ->
            (t[c.m_p] = YES => \E k \in 1 .. Len(c.m_qs) : t[c.m_qs[k]] = YES)

\* the last call was Set with an index in range and a definite value
SetCalled == call.op = "Set" /\ call.index < size(arg) /\ call.value \in Definite

\* the last call was the Evaluate of a constraint of the given kind
Evaluated(kind) == call.op = "Evaluate" /\ call.c.kind = kind

\* the slots where two tables of one size differ
Differing(s, t) == {i \in DOMAIN s : s[i] # t[i]}

\* the lowest slot of a non-empty set of slots
Lowest(slots) == CHOOSE i \in slots : \A j \in slots : i <= j

\* the indices a constraint was built with
Names(c) ==
    CASE c.kind = "Fixed" -> {c.m_index}
      [] c.kind = "IfPThenQ" -> {c.m_p, c.m_q}
      [] c.kind = "Identical" -> Named(c.m_indexes1) \cup Named(c.m_indexes2)
      [] c.kind = "ExactlyNOf" -> Named(c.m_indexes)
      [] c.kind = "IfPThenOneOrMoreOfQ" -> {c.m_p} \cup Named(c.m_qs)
      [] c.kind = "OneIfAny" -> {c.m_one} \cup Named(c.m_any)

\* the indices the last call used
Used ==
    CASE call.op \in {"Set", "operator[]"} -> {call.index}
      [] call.op = "Count" -> Named(call.indexes)
      [] call.op \in {"Construct", "Evaluate"} -> Names(call.c)
      [] OTHER -> {}

\* the last call built, and evaluated if it could, a constraint of the kind
Built(kind) == call.op \in {"Construct", "Evaluate"} /\ call.c.kind = kind

\* s with the MAYBE slots among the given indices set to value
Forced(s, indices, value) ==
    [i \in DOMAIN s |-> IF i \in indices /\ s[i] = MAYBE THEN value ELSE s[i]]

(***************************************************************************)
(* C1: soundness of Solve.  Every table in the solutions list has no MAYBE *)
(* slot and meets every constraint of the puzzle.                          *)
(***************************************************************************)
C1_SolveSound ==
    \A k \in 1 .. Len(solutions) :
        /\ MaybeCount(solutions[k]) = 0
        /\ \A j \in 1 .. Len(m_constraints) : Holds(m_constraints[j], solutions[k])

\* Solve has returned the two Latin squares of order 2
C1_Witness ==
    /\ pc = "return"
    /\ Len(m_constraints) = 12
    /\ Len(solutions) = 2

(***************************************************************************)
(* C2: completeness of Solve.  When Solve returns, every total assignment  *)
(* that meets every constraint of the puzzle is in the solutions list      *)
(* exactly once; scenario A returns exactly its two solutions and a puzzle *)
(* without constraints returns all 2^N assignments.                        *)
(***************************************************************************)
C2_SolveComplete ==
    pc = "return" =>
        /\ \A t \in Totals(m_slot_count) :
              (\A j \in 1 .. Len(m_constraints) : Holds(m_constraints[j], t))
              => Cardinality({k \in 1 .. Len(solutions) : solutions[k] = t}) = 1
        /\ Puzzle(m_slot_count, m_constraints) = ScenarioA =>
              /\ Len(solutions) = 2
              /\ {solutions[k] : k \in 1 .. Len(solutions)} =
                    {[i \in 0 .. 3 |-> IF i = 3 THEN NO ELSE YES],
                     [i \in 0 .. 3 |-> IF i = 2 THEN NO ELSE YES]}
        /\ m_constraints = <<>> => Len(solutions) = 2 ^ m_slot_count

\* Solve has returned the two solutions of scenario A
C2_Witness ==
    /\ pc = "return"
    /\ Puzzle(m_slot_count, m_constraints) = ScenarioA
    /\ Len(solutions) = 2

(***************************************************************************)
(* C3: termination of Solve.  Solve reaches its return, and every          *)
(* branching step replaces the candidate on top by two candidates that     *)
(* each have fewer MAYBE slots than it, the rest of the stack kept.        *)
(***************************************************************************)
C3_SolveTerminates ==
    /\ <>(pc = "return")
    /\ [][Len(candidates') > Len(candidates) =>
            /\ Len(candidates') = Len(candidates) + 1
            /\ SubSeq(candidates', 1, Len(candidates) - 1) = pop
            /\ MaybeCount(candidates'[Len(candidates)]) < MaybeCount(top)
            /\ MaybeCount(candidates'[Len(candidates) + 1]) < MaybeCount(top)]_vars

\* Solve has returned after it searched the whole tree of an unconstrained puzzle
C3_Witness ==
    /\ pc = "return"
    /\ m_constraints = <<>>
    /\ Len(solutions) = 2 ^ m_slot_count
    /\ m_slot_count >= 2

(***************************************************************************)
(* C4: termination of the fixpoint loop.  The do loop makes at most N + 1  *)
(* ApplyConstraints calls on a candidate: no Evaluate call of a pass turns *)
(* a definite slot of the candidate back, one that returns PROGRESS leaves *)
(* it with fewer MAYBE slots, and after p calls of ApplyConstraints that   *)
(* each returned PROGRESS at least p slots of the candidate are definite.  *)
(***************************************************************************)
C4_FixpointBound ==
    /\ [](/\ passes <= m_slot_count + 1
          /\ pc \in {"for", "while"} => m_slot_count - MaybeCount(top) >= passes - 1
          /\ pc = "while" /\ result = PROGRESS => m_slot_count - MaybeCount(top) >= passes)
    /\ [][Len(evals') = Len(evals) + 1 =>
            LET after == candidates'[Len(candidates)]
            IN  /\ \A i \in DOMAIN top : top[i] \in Definite => after[i] = top[i]
                /\ ret' = PROGRESS => MaybeCount(after) < MaybeCount(top)
                /\ ret' = NO_CHANGE => after = top]_vars

\* the loop ends with its call N + 1, on the chain of implications
C4_Witness ==
    /\ pc = "while"
    /\ result = NO_CHANGE
    /\ passes = m_slot_count + 1
    /\ m_slot_count >= 3
    /\ MaybeCount(top) = 0

(***************************************************************************)
(* C5: Set(index, value) with index in range and a definite value: on a    *)
(* slot that holds value it returns NO_CHANGE and changes nothing; on a    *)
(* slot that holds the opposite value it returns CONFLICT and changes      *)
(* nothing; on a MAYBE slot it sets that slot to value, leaves every other *)
(* slot alone and returns PROGRESS.                                        *)
(***************************************************************************)
C5_SetContract ==
    SetCalled =>
        /\ arg[call.index] = call.value => ret = NO_CHANGE /\ sol = arg
        /\ arg[call.index] = Not(call.value) => ret = CONFLICT /\ sol = arg
        /\ arg[call.index] = MAYBE =>
              /\ ret = PROGRESS
              /\ sol = [arg EXCEPT ![call.index] = call.value]

\* Set on a slot holding the opposite value, with another slot already set
C5_Witness ==
    /\ SetCalled
    /\ arg[call.index] = Not(call.value)
    /\ ret = CONFLICT
    /\ \E j \in DOMAIN arg : j # call.index /\ arg[j] = YES

(***************************************************************************)
(* C6: monotonicity.  Across every call on one Solution, Set or the        *)
(* Evaluate of a catalog constraint, the table keeps its slots, a slot     *)
(* that holds a definite value keeps it, and a Set of the opposite value   *)
(* returns CONFLICT and leaves the whole table as it was.                  *)
(***************************************************************************)
C6_Monotonic ==
    [][/\ DOMAIN sol' = DOMAIN sol
       /\ \A i \in DOMAIN sol : sol[i] \in Definite => sol'[i] = sol[i]
       /\ (/\ call'.op = "Set"
           /\ call'.index < size(sol)
           /\ call'.value \in Definite
           /\ sol[call'.index] = Not(call'.value))
          => ret' = CONFLICT /\ sol' = sol]_vars

\* an Evaluate that changed one slot and kept two definite slots of different values
C6_Witness ==
    /\ call.op = "Evaluate"
    /\ \E i \in DOMAIN arg : arg[i] = MAYBE /\ sol[i] \in Definite
    /\ \E i \in DOMAIN arg, j \in DOMAIN arg : arg[i] = YES /\ arg[j] = NO

(***************************************************************************)
(* C7: rule soundness.  For every catalog constraint and every table, each *)
(* total assignment that extends the table before the Evaluate and meets   *)
(* the constraint also extends the table after it, and Evaluate returns    *)
(* CONFLICT only when no total assignment extending the table before it    *)
(* meets the constraint.                                                   *)
(***************************************************************************)
C7_RuleSound ==
    call.op = "Evaluate" =>
        /\ \A t \in Totals(size(arg)) :
              Extends(t, arg) /\ Holds(call.c, t) => Extends(t, sol)
        /\ ret = CONFLICT =>
              ~ \E t \in Totals(size(arg)) : Extends(t, arg) /\ Holds(call.c, t)

\* an ExactlyNOf that forced two slots at once, with an assignment that meets it
C7_Witness ==
    /\ Evaluated("ExactlyNOf")
    /\ ret = PROGRESS
    /\ Cardinality({i \in DOMAIN arg : arg[i] # sol[i]}) = 2
    /\ \E t \in Totals(size(arg)) : Extends(t, arg) /\ Holds(call.c, t)

(***************************************************************************)
(* C8: outcome accuracy.  The Evaluate of a catalog constraint returns     *)
(* PROGRESS exactly when it found no conflict and turned at least one      *)
(* MAYBE slot definite, and NO_CHANGE exactly when it found no conflict    *)
(* and changed no slot; a pass of ApplyConstraints returns PROGRESS        *)
(* exactly when none of its Evaluate calls returned CONFLICT and at least  *)
(* one returned PROGRESS.                                                  *)
(***************************************************************************)
C8_OutcomeAccurate ==
    /\ call.op = "Evaluate" =>
          /\ ret \in Result
          /\ ret = PROGRESS <=>
                (ret # CONFLICT /\ \E i \in DOMAIN arg : arg[i] = MAYBE /\ sol[i] \in Definite)
          /\ ret = NO_CHANGE <=> (ret # CONFLICT /\ sol = arg)
    /\ pc = "while" =>
          (result = PROGRESS <=>
              /\ \A k \in 1 .. Len(evals) : evals[k] # CONFLICT
              /\ \E k \in 1 .. Len(evals) : evals[k] = PROGRESS)

\* a pass that returned PROGRESS although its first Evaluate changed nothing
C8_Witness ==
    /\ pc = "while"
    /\ result = PROGRESS
    /\ Len(evals) >= 2
    /\ evals[1] = NO_CHANGE
    /\ call.op = "Evaluate"
    /\ ret = PROGRESS

(***************************************************************************)
(* C9: ExactlyNOf(n, indexes, value).Evaluate, with matches the number of  *)
(* listed indices that hold value and maybes the number that hold MAYBE:   *)
(* it returns CONFLICT, the table unchanged, exactly when matches > n or   *)
(* matches + maybes < n; else with matches = n it sets every listed MAYBE  *)
(* slot to the opposite value; else with maybes = n - matches it sets      *)
(* every listed MAYBE slot to value; else it changes nothing and returns   *)
(* NO_CHANGE.                                                              *)
(***************************************************************************)
C9_ExactlyNOf ==
    Evaluated("ExactlyNOf") =>
        LET c == call.c
            n == c.m_number
            matches == Cardinality(Holding(arg, c.m_indexes, c.m_value))
            maybes == Cardinality(Holding(arg, c.m_indexes, MAYBE))
            conflict == matches > n \/ matches + maybes < n
        IN  /\ ret = CONFLICT <=> conflict
            /\ conflict => sol = arg
            /\ ~conflict /\ matches = n =>
                  sol = Forced(arg, Named(c.m_indexes), Not(c.m_value))
            /\ ~conflict /\ matches # n /\ maybes = n - matches =>
                  sol = Forced(arg, Named(c.m_indexes), c.m_value)
            /\ ~conflict /\ matches # n /\ maybes # n - matches =>
                  sol = arg /\ ret = NO_CHANGE

\* ExactlyNOf(2, [a, b, c], YES) with a and b YES forces c to NO
C9_Witness ==
    /\ Evaluated("ExactlyNOf")
    /\ call.c.m_number = 2
    /\ call.c.m_value = YES
    /\ Len(call.c.m_indexes) = 3
    /\ Cardinality(Named(call.c.m_indexes)) = 3
    /\ arg[call.c.m_indexes[1]] = YES
    /\ arg[call.c.m_indexes[2]] = YES
    /\ arg[call.c.m_indexes[3]] = MAYBE
    /\ sol[call.c.m_indexes[3]] = NO

(***************************************************************************)
(* C10: IfPThenQ(P, Q).Evaluate: with P YES and Q NO it returns CONFLICT   *)
(* and changes nothing; with P YES and Q MAYBE it sets Q to YES and        *)
(* returns PROGRESS; with Q NO and P MAYBE it sets P to NO and returns     *)
(* PROGRESS; in every other case it changes nothing and returns NO_CHANGE. *)
(***************************************************************************)
C10_IfPThenQ ==
    Evaluated("IfPThenQ") =>
        LET P == call.c.m_p
            Q == call.c.m_q
        IN  /\ arg[P] = YES /\ arg[Q] = NO => ret = CONFLICT /\ sol = arg
            /\ arg[P] = YES /\ arg[Q] = MAYBE =>
                  ret = PROGRESS /\ sol = [arg EXCEPT ![Q] = YES]
            /\ arg[Q] = NO /\ arg[P] = MAYBE =>
                  ret = PROGRESS /\ sol = [arg EXCEPT ![P] = NO]
            /\ ~(arg[P] = YES /\ arg[Q] \in {NO, MAYBE}) /\ ~(arg[Q] = NO /\ arg[P] = MAYBE) =>
                  ret = NO_CHANGE /\ sol = arg

\* P is NO and Q is still MAYBE: the converse is not derived
C10_Witness ==
    /\ Evaluated("IfPThenQ")
    /\ arg[call.c.m_p] = NO
    /\ arg[call.c.m_q] = MAYBE
    /\ ret = NO_CHANGE
    /\ sol = arg

(***************************************************************************)
(* C11: Identical(A, B).Evaluate over lists of equal length, pairs that    *)
(* share indices included: with a pair that holds opposite definite values *)
(* on entry it returns CONFLICT; when it returns NO_CHANGE every pair      *)
(* holds equal values; when it returns PROGRESS every pair that had        *)
(* exactly one definite side on entry has that value on both sides on      *)
(* exit.                                                                   *)
(***************************************************************************)
C11_Identical ==
    Evaluated("Identical") /\ Len(call.c.m_indexes1) = Len(call.c.m_indexes2) =>
        LET A == call.c.m_indexes1
            B == call.c.m_indexes2
            pairs == 1 .. Len(A)
        IN  /\ (\E k \in pairs : arg[A[k]] \in Definite /\ arg[B[k]] = Not(arg[A[k]]))
                  => ret = CONFLICT
            /\ ret = NO_CHANGE => sol = arg /\ \A k \in pairs : sol[A[k]] = sol[B[k]]
            /\ ret = PROGRESS =>
                  \A k \in pairs :
                      /\ arg[A[k]] \in Definite /\ arg[B[k]] = MAYBE =>
                            sol[A[k]] = arg[A[k]] /\ sol[B[k]] = arg[A[k]]
                      /\ arg[B[k]] \in Definite /\ arg[A[k]] = MAYBE =>
                            sol[A[k]] = arg[B[k]] /\ sol[B[k]] = arg[B[k]]

\* two pairs that share an index: the value travels from the first pair
\* through the shared slot to the second
C11_Witness ==
    /\ Evaluated("Identical")
    /\ ret = PROGRESS
    /\ Len(call.c.m_indexes1) = 2
    /\ call.c.m_indexes2[1] = call.c.m_indexes1[2]
    /\ arg[call.c.m_indexes1[1]] = YES
    /\ arg[call.c.m_indexes2[1]] = MAYBE
    /\ arg[call.c.m_indexes2[2]] = MAYBE
    /\ Cardinality({i \in DOMAIN arg : sol[i] = YES}) = 3

(***************************************************************************)
(* C12: IfPThenOneOrMoreOfQ(P, Q).Evaluate, the entries of Q counted as    *)
(* QCount counts them: with P YES and no entry YES it returns CONFLICT and *)
(* changes nothing when no entry is MAYBE, and sets the one MAYBE entry to *)
(* YES and returns PROGRESS when exactly one is; with P MAYBE and every    *)
(* entry NO, an empty Q included, it sets P to NO and returns PROGRESS; in *)
(* every other case it changes nothing and returns NO_CHANGE.              *)
(***************************************************************************)
C12_IfPThenOneOrMoreOfQ ==
    Evaluated("IfPThenOneOrMoreOfQ") =>
        LET P == call.c.m_p
            Q == call.c.m_qs
            yeses == Cardinality(Holding(arg, Q, YES))
            maybes == Holding(arg, Q, MAYBE)
            conflict == arg[P] = YES /\ yeses = 0 /\ maybes = {}
            forceQ == arg[P] = YES /\ yeses = 0 /\ Cardinality(maybes) = 1
            forceP == arg[P] = MAYBE /\ \A k \in 1 .. Len(Q) : arg[Q[k]] = NO
        IN  /\ conflict => ret = CONFLICT /\ sol = arg
            /\ forceQ =>
                  /\ ret = PROGRESS
                  /\ \A k \in maybes : sol = [arg EXCEPT ![Q[k]] = YES]
            /\ forceP => ret = PROGRESS /\ sol = [arg EXCEPT ![P] = NO]
            /\ ~conflict /\ ~forceQ /\ ~forceP => ret = NO_CHANGE /\ sol = arg

\* P is YES, two entries of Q are NO and the third, still MAYBE, is set to YES
C12_Witness ==
    /\ Evaluated("IfPThenOneOrMoreOfQ")
    /\ Len(call.c.m_qs) = 3
    /\ arg[call.c.m_p] = YES
    /\ Cardinality(Holding(arg, call.c.m_qs, NO)) = 2
    /\ Cardinality(Holding(arg, call.c.m_qs, MAYBE)) = 1
    /\ ret = PROGRESS
    /\ Cardinality(Holding(sol, call.c.m_qs, YES)) = 1

(***************************************************************************)
(* C13, as stated: idempotence of propagation.  After the do loop has run  *)
(* to its end on a candidate, whatever it ended with, a second run of the  *)
(* loop on the table it left returns NO_CHANGE from its first              *)
(* ApplyConstraints call and leaves the table as it was.                   *)
(***************************************************************************)
C13_AsStated ==
    run = "fix again" /\ pc = "while" =>
        /\ passes = 1
        /\ result = NO_CHANGE
        /\ candidates = first.candidates

(***************************************************************************)
(* C13, amended: after a run of the do loop that ended without CONFLICT, a *)
(* second run on the table it left returns NO_CHANGE from its first        *)
(* ApplyConstraints call and leaves the table as it was; after a run that  *)
(* ended in CONFLICT the first ApplyConstraints call of the second run     *)
(* returns CONFLICT again.                                                 *)
(***************************************************************************)
C13_Idempotent ==
    run = "fix again" /\ pc = "while" =>
        /\ passes = 1
        /\ first.result = NO_CHANGE => result = NO_CHANGE /\ candidates = first.candidates
        /\ first.result = CONFLICT => result = CONFLICT

\* the second run has ended after the first run forced two slots of the chain
C13_Witness ==
    /\ run = "fix again"
    /\ pc = "while"
    /\ result = NO_CHANGE
    /\ first.result = NO_CHANGE
    /\ Len(first.steps) >= 9
    /\ MaybeCount(first.start[1]) = 2
    /\ MaybeCount(top) = 0

(***************************************************************************)
(* C14: confluence.  From the same starting table, the do loop under       *)
(* another registration order of the same constraints ends in CONFLICT     *)
(* exactly when it did under the first order, and when it does not it      *)
(* leaves the same table; Solve under another registration order returns   *)
(* the same set of solutions.                                              *)
(***************************************************************************)
C14_Confluent ==
    /\ run = "fix reordered" /\ pc = "while" /\ result # PROGRESS =>
          /\ result = CONFLICT <=> first.result = CONFLICT
          /\ result # CONFLICT => candidates = first.candidates
    /\ run = "solve reordered" /\ pc = "return" =>
          {solutions[k] : k \in 1 .. Len(solutions)} =
              {first.solutions[k] : k \in 1 .. Len(first.solutions)}

\* the other order reached the same table, fully decided, in fewer steps
C14_Witness ==
    /\ run = "fix reordered"
    /\ pc = "while"
    /\ result = NO_CHANGE
    /\ candidates = first.candidates
    /\ MaybeCount(top) = 0
    /\ MaybeCount(first.start[1]) >= 2
    /\ Len(steps) < Len(first.steps)

C16_ConflictIsNoError ==
    /\ [][pc = "while" /\ result = CONFLICT =>
            /\ candidates' = SubSeq(candidates, 1, Len(candidates) - 1)
            /\ solutions' = solutions
            /\ pc' = IF Len(candidates) > 1 THEN "for" ELSE "return"]_vars
    /\ [](/\ pc # "abort"
          /\ (/\ pc = "return"
              /\ \E k \in 1 .. Len(steps) :
                    steps[k] = <<"prune">> /\ \A j \in 1 .. (k - 1) : steps[j][1] = "evaluate")
             => /\ solutions = <<>>
                /\ steps[Len(steps)] = <<"prune">>
                /\ \A j \in 1 .. (Len(steps) - 1) : steps[j][1] = "evaluate"
          /\ pc = "return" /\ Puzzle(m_slot_count, m_constraints) = ScenarioB =>
                steps = <<<<"evaluate", 1, PROGRESS>>, <<"evaluate", 2, CONFLICT>>, <<"prune">>>>)

\* a guess was pruned and Solve has gone on to propagate the other guess
C16_Witness ==
    /\ pc = "for"
    /\ candidates # <<>>
    /\ Len(steps) >= 2
    /\ steps[Len(steps) - 1] = <<"prune">>
    /\ steps[Len(steps)][1] = "evaluate"

(***************************************************************************)
(* C20: the branch step.  When the do loop on the top candidate has ended  *)
(* without CONFLICT and the candidate has a MAYBE slot, Solve pops it and  *)
(* pushes two copies that differ from it in the lowest MAYBE slot k only,  *)
(* first the copy with slot k NO and then the copy with slot k YES, which  *)
(* is the next candidate processed; a candidate without a MAYBE slot is    *)
(* popped and not branched.                                                *)
(***************************************************************************)
C20_BranchStep ==
    [][pc = "while" /\ result \notin {PROGRESS, CONFLICT} =>
          LET rest == SubSeq(candidates, 1, Len(candidates) - 1)
              open == {i \in DOMAIN top : top[i] = MAYBE}
          IN  IF open # {}
              THEN LET k == CHOOSE i \in open : \A j \in open : i <= j
                   IN  /\ candidates' = rest \o <<[top EXCEPT ![k] = NO], [top EXCEPT ![k] = YES]>>
                       /\ candidates'[Len(candidates')] = [top EXCEPT ![k] = YES]
                       /\ pc' = "for"
                       /\ solutions' = solutions
              ELSE candidates' = rest]_vars

\* a branch on a slot other than slot 0, with another guess waiting below
C20_Witness ==
    /\ pc = "for"
    /\ steps # <<>>
    /\ steps[Len(steps)][1] = "branch"
    /\ steps[Len(steps)][2] >= 1
    /\ Len(candidates) >= 3
    /\ top[steps[Len(steps)][2]] = YES
    /\ candidates[Len(candidates) - 1][steps[Len(steps)][2]] = NO

(***************************************************************************)
(* C17: every use of an index that is out of range is detected: a call of  *)
(* Set, operator[] or Count with such an index, and the evaluation of a    *)
(* catalog constraint built with one, ends in the abort of a failed assert *)
(* and returns nothing.                                                    *)
(***************************************************************************)
C17_OutOfRangeAborts ==
    (\E i \in Used : i \notin DOMAIN arg) => ret = ABORT

(***************************************************************************)
(* C18: an ExactlyNOf built with n greater than the length of its index   *)
(* list aborts when it is constructed or evaluated and returns neither     *)
(* CONFLICT nor NO_CHANGE nor PROGRESS.                                    *)
(***************************************************************************)
C18_TooManyFailsFast ==
    Built("ExactlyNOf") /\ call.c.m_number > Len(call.c.m_indexes) => ret = ABORT

(***************************************************************************)
(* C19: a request to set MAYBE fails fast.  Set with the value MAYBE       *)
(* aborts and leaves the table as it was, the constructor of a Fixed with  *)
(* the value MAYBE aborts, and every Evaluate of an ExactlyNOf built with  *)
(* the value MAYBE aborts instead of returning CONFLICT, NO_CHANGE or      *)
(* PROGRESS.  Stated for indices in range.                                 *)
(***************************************************************************)
C19_MaybeFailsFast ==
    Used \subseteq DOMAIN arg =>
        /\ call.op = "Set" /\ call.value = MAYBE => ret = ABORT /\ sol = arg
        /\ Built("Fixed") /\ call.c.m_value = MAYBE => call.op = "Construct" /\ ret = ABORT
        /\ Built("ExactlyNOf") /\ call.c.m_value = MAYBE => ret = ABORT

(***************************************************************************)
(* C21: a pass of ApplyConstraints evaluates the constraints in            *)
(* registration order, each against the candidate on top of the stack and  *)
(* no other, and stops at the first CONFLICT: the step after an Evaluate   *)
(* that returned CONFLICT is the pop of that candidate, so no later        *)
(* constraint is evaluated in the pass and no further pass is run.         *)
(***************************************************************************)
C21_PassOrder ==
    /\ [](\A k \in 1 .. Len(steps) :
            steps[k][1] = "evaluate" =>
                /\ steps[k][2] \in 1 .. Len(m_constraints)
                /\ (k = 1 \/ steps[k - 1][1] # "evaluate") => steps[k][2] = 1
                /\ k < Len(steps) =>
                      IF steps[k][3] = CONFLICT THEN steps[k + 1][1] = "prune"
                      ELSE IF steps[k][2] < Len(m_constraints)
                      THEN steps[k + 1] = <<"evaluate", steps[k][2] + 1, steps[k + 1][3]>>
                      ELSE steps[k + 1][1] = "evaluate" => steps[k + 1][2] = 1)
    /\ [][Len(steps') > Len(steps) /\ steps'[Len(steps')][1] = "evaluate" =>
            /\ call'.c = m_constraints[steps'[Len(steps')][2]]
            /\ arg' = top
            /\ Len(candidates') = Len(candidates)
            /\ \A d \in 1 .. (Len(candidates) - 1) : candidates'[d] = candidates[d]
            /\ solutions' = solutions]_vars

\* a CONFLICT from a constraint that is not the last one registered, in a
\* second or later pass, and the candidate popped right after it
C21_Witness ==
    \E k \in 2 .. (Len(steps) - 1) :
        /\ steps[k][1] = "evaluate"
        /\ steps[k][3] = CONFLICT
        /\ steps[k][2] < Len(m_constraints)
        /\ steps[k - 1] = <<"evaluate", Len(m_constraints), PROGRESS>>
        /\ steps[k + 1][1] = "prune"

C23_Isolated ==
    [][/\ \A d \in 1 .. (Len(candidates) - 1) :
              d <= Len(candidates') /\ candidates'[d] = candidates[d]
       /\ Len(solutions') >= Len(solutions)
       /\ \A k \in 1 .. Len(solutions) : solutions'[k] = solutions[k]
       /\ Len(solutions') > Len(solutions) =>
              solutions' = Append(solutions, top)]_vars

\* an Evaluate has just changed the top candidate while another candidate
\* waits below it and a solution is already in the list
C23_Witness ==
    /\ Len(candidates) >= 2
    /\ Len(solutions) >= 1
    /\ steps # <<>>
    /\ steps[Len(steps)][1] = "evaluate"
    /\ steps[Len(steps)][3] = PROGRESS
    /\ sol # arg

(***************************************************************************)
(* C24: the solutions are listed in strictly descending lexicographic      *)
(* order, YES above NO: of two solutions of the list, at the lowest slot   *)
(* where they differ the earlier one holds YES and the later one NO.  So   *)
(* no solution is listed twice.                                            *)
(***************************************************************************)
C24_Descending ==
    \A i \in 1 .. Len(solutions), j \in 1 .. Len(solutions) :
        i < j =>
            /\ Differing(solutions[i], solutions[j]) # {}
            /\ solutions[i][Lowest(Differing(solutions[i], solutions[j]))] = YES
            /\ solutions[j][Lowest(Differing(solutions[i], solutions[j]))] = NO

\* Solve has returned three or more solutions, two of them alike in slot 0
C24_Witness ==
    /\ pc = "return"
    /\ Len(solutions) >= 3
    /\ \E i \in 1 .. Len(solutions), j \in 1 .. Len(solutions) :
          i < j /\ Lowest(Differing(solutions[i], solutions[j])) > 0

(***************************************************************************)
(* C25: in every state of Solve the work-list holds at most N + 1          *)
(* candidates, N the slot count, and the candidate at depth d from the     *)
(* bottom of the stack (the bottom is depth 0) has at least d definite     *)
(* slots.                                                                  *)
(***************************************************************************)
C25_StackBound ==
    /\ Len(candidates) <= m_slot_count + 1
    /\ \A k \in 1 .. Len(candidates) :
          size(candidates[k]) - MaybeCount(candidates[k]) >= k - 1

\* the bound is met: N + 1 candidates wait, N of two slots or more
C25_Witness ==
    /\ m_slot_count >= 2
    /\ Len(candidates) = m_slot_count + 1
    /\ pc = "for"

(***************************************************************************)
(* C26: OneIfAny of zebra.cpp and IfPThenOneOrMoreOfQ of constraints.h are *)
(* the same rule: built with the same index P and the same list Q, the     *)
(* empty list and lists with repeated indices included, and evaluated on   *)
(* the same table, they return the same Result and leave the same table.   *)
(***************************************************************************)
C26_SameRule ==
    /\ Evaluated("OneIfAny") =>
          Ret(ret, sol) =
              IfPThenOneOrMoreOfQEvaluate(IfPThenOneOrMoreOfQ(call.c.m_one, call.c.m_any), arg)
    /\ Evaluated("IfPThenOneOrMoreOfQ") =>
          Ret(ret, sol) = OneIfAnyEvaluate(OneIfAny(call.c.m_p, call.c.m_qs), arg)

\* OneIfAny with P = YES and a list that names one NO slot twice: its
\* Set(P, NO) returns the CONFLICT that the other rule returns directly
C26_Witness ==
    /\ Evaluated("OneIfAny")
    /\ arg[call.c.m_one] = YES
    /\ Len(call.c.m_any) = 2
    /\ call.c.m_any[1] = call.c.m_any[2]
    /\ arg[call.c.m_any[1]] = NO
    /\ ret = CONFLICT
    /\ sol = arg

====
